---- MODULE Spec2Model ----
(***************************************************************************)
(* Model of app/main.py: the OAuth2 PKCE authorization flow (/login,       *)
(* /callback), the process-wide state store and access token cache, and    *)
(* the cached-token resource call (/patients, /health).                    *)
(*                                                                         *)
(* The handlers are asyncio coroutines on one event loop: a handler runs   *)
(* without interruption until it awaits the network (line 69 for the token *)
(* POST, line 282 for the resource GET).  Each action below is therefore   *)
(* one such uninterrupted stretch of a handler.                            *)
(*                                                                         *)
(* A token exchange "returns" when exchange_code_for_token returns         *)
(* token_data (lines 69-77); it "fails" when that function raises.  The    *)
(* token endpoint is free to answer with an access_token that is not a     *)
(* string: the exchange then returns, line 222 caches the value, and the   *)
(* slice of line 225 raises, so /callback answers 500.                     *)
(***************************************************************************)
EXTENDS Integers, FiniteSets, Sequences, Bags, TLC

\* ---------------------------------------------------------------- bounds
\* Number of distinct state values /login can hand out.
MaxStates == 2
\* Number of requests that can be suspended on the network at once.
MaxTasks == 2
\* Where the history counters saturate.
CountCap == 3

\* ------------------------------------------------------------ value sets
\* An absent or empty `state' query parameter (line 194).
NoState == 0
States == 1..MaxStates

\* PKCE verifiers (line 38) are opaque random strings, named by numbers here:
\* one more than there are state values.  NoEntry: no entry in the store.
Verifiers == 1..(MaxStates + 1)
NoEntry == 0

\* Access tokens are opaque strings.  NoToken is any falsy value of
\* token_data.get("access_token"): the key is missing (None) or empty ("").
\* NonStrToken is a truthy access_token that is not a string (e.g. the JSON
\* number 12345): it passes the check of line 74 but cannot be sliced at
\* lines 225 and 278.
StrTokens == {"token-a", "token-b"}
NoToken == ""
NonStrToken == "12345 (int)"

\* Authorization codes; NoCode: the `code' parameter is absent or empty.
Codes == {"code-1"}
NoCode == ""

\* Values of the `error' and `error_uri' query parameters a caller can send.
NoParam == "absent"
ErrorCodes == {"access_denied", "invalid_request"}
LaunchUri == "urn:launch:code-required"
ErrorUris == {NoParam, LaunchUri}

\* The configured client id (line 21): set, or empty.
ClientIds == {"client-id", ""}

\* request.query_params of a /callback request (line 154)
\* (error_uri is read in the error branch only, so it comes with an error)
CallbackQueries ==
    [error : ErrorCodes, error_uri : ErrorUris,
     code : Codes \cup {NoCode}, state : States \cup {NoState}]
    \cup [error : {NoParam}, error_uri : {NoParam},
          code : Codes \cup {NoCode}, state : States \cup {NoState}]
NoQuery == [error |-> NoParam, error_uri |-> NoParam, code |-> NoCode, state |-> NoState]

\* What the token endpoint can answer to the POST of line 69.
\*   "json"      2xx with a JSON object; access_token is the value of
\*               token_data.get("access_token")
\*   "status"    a non-2xx status (raise_for_status raises HTTPStatusError)
\*   "transport" a connection error, a timeout or a body that is not JSON
\*   text is response.text of an error answer, "" where it is not read.
TokenStatuses == {400, 401}
ErrorTexts == {"invalid_grant", "invalid_client"}
TokenResponses ==
    [kind : {"json"}, status : {200},
     access_token : StrTokens \cup {NoToken, NonStrToken}, text : {""}]
    \cup [kind : {"status"}, status : TokenStatuses, access_token : {NoToken},
          text : ErrorTexts]
    \cup [kind : {"transport"}, status : {0}, access_token : {NoToken}, text : {""}]

\* What the resource server can answer to the GET of line 282.
\* text is response.text of an error answer, "" where it is not read.
ResourceStatuses == {401, 404, 503}
ResourceTexts == {"OperationOutcome: not-found", "OperationOutcome: timeout"}
ResourceResponses ==
    [kind : {"json"}, status : {200}, text : {""}]
    \cup [kind : {"status"}, status : ResourceStatuses, text : ResourceTexts]
    \cup [kind : {"transport"}, status : {0}, text : {""}]

VARIABLES
    ORACLE_CLIENT_ID,      \* line 21, fixed at process start
    code_verifier_store,   \* line 31: state -> verifier (NoEntry: no entry)
    access_token_cache,    \* line 32 (NoToken: None)
    tasks,                 \* bag of the requests suspended on the network
    used,                  \* state values secrets.token_urlsafe has produced
    generated,             \* number of verifiers generate_code_verifier has produced
    issued,                \* history: the verifier /login stored under a state
    resolved,              \* history: callbacks that passed the state check
    posted,                \* history: token POSTs sent for a state
    outcome,               \* history: how the exchange for a state ended
    granted,               \* history: token of the latest exchange that
                           \*   returned, NoToken once a 401 revoked it
    cleared,               \* history: a 401 was received, no exchange returned since
    last,                  \* history: what the latest handler step did
    pkce                   \* generate_code_verifier called on its own: the
                           \*   run in progress

vars == <<ORACLE_CLIENT_ID, code_verifier_store, access_token_cache, tasks,
          used, generated, issued, resolved, posted, outcome, granted, cleared, last,
          pkce>>

\* Faulty variant of AfterAnswer: a request answered with an error status is
\* sent again.
RetryOnErrorStatus(waiting, r, resp) ==
    IF resp.kind = "status" THEN waiting ELSE waiting (-) SetToBag({r})

\* The suspended requests once request r has its answer: r resumes and runs
\* to its response (lines 70-85 and 218-247, lines 283-318); there is no loop
\* around the POST of line 69 or the GET of line 282, so nothing is sent
\* again.
AfterAnswer(waiting, r, resp) == waiting (-) SetToBag({r})

\* A /callback suspended at line 69 with its local variables.
AwaitPost(code, state, code_verifier) ==
    [pc |-> "await_post", code |-> code, state |-> state,
     verifier |-> code_verifier, bearer |-> NoToken]

\* A /patients suspended at line 282; bearer is the token in its header.
AwaitGet(bearer) ==
    [pc |-> "await_get", code |-> NoCode, state |-> NoState,
     verifier |-> NoEntry, bearer |-> bearer]

\* Room for one more suspended request.
CanSuspend == BagCardinality(tasks) < MaxTasks

\* Saturating history counter.
Bump(n) == IF n < CountCap THEN n + 1 ELSE n

\* An exception as the handlers see it: its class, the status_code of an
\* HTTPException, its detail text, and the text of the token endpoint's
\* answer where the detail quotes it.
NoException == [type |-> "", status_code |-> 0, detail |-> "", text |-> ""]

\* The rendering of an exception in a response: the status and the texts it
\* shows.
NoMessage == [status |-> 0, detail |-> "", text |-> ""]

NoEvent ==
    [op |-> "start", q |-> NoQuery, status |-> 0, error |-> "",
     post_code |-> NoCode, post_verifier |-> NoEntry, get_bearer |-> NoToken,
     upstream |-> "", upstream_status |-> 0, token |-> NoToken,
     store_before |-> [s \in States |-> NoEntry], cache_before |-> NoToken,
     login_state |-> NoState, challenge |-> 0, url_state |-> NoState,
     has_active_token |-> FALSE,
     upstream_text |-> "", exc |-> NoException, message |-> NoMessage, body |-> {},
     inflight_before |-> 0, sent |-> 0]

\* The event record of a handler step taken in the current state.
Event(op) ==
    [NoEvent EXCEPT !.op = op,
                    !.store_before = code_verifier_store,
                    !.cache_before = access_token_cache,
                    !.inflight_before = BagCardinality(tasks)]

\* generate_code_verifier has not been called on its own.
\*   n, buf, out_len, group   generate_code_verifier: bytes drawn so far,
\*                            bytes not yet encoded, characters written, the
\*                            characters written last
\*   length                   length of the verifier returned (0: none yet)
NoPkce ==
    [n |-> 0, buf |-> <<>>, out_len |-> 0, group |-> <<>>, length |-> 0]

Init ==
    /\ ORACLE_CLIENT_ID \in ClientIds
    /\ code_verifier_store = [s \in States |-> NoEntry]
    /\ access_token_cache = NoToken
    /\ tasks = EmptyBag
    /\ used = {}
    /\ generated = 0
    /\ issued = [s \in States |-> NoEntry]
    /\ resolved = [s \in States |-> 0]
    /\ posted = [s \in States |-> 0]
    /\ outcome = [s \in States |-> "none"]
    /\ granted = NoToken
    /\ cleared = FALSE
    /\ last = NoEvent
    /\ pkce = NoPkce

\* ------------------------------------------------------------ PKCE helper
\* generate_code_challenge (lines 40-43): base64url(SHA-256(verifier)),
\* kept as a symbolic digest: a name outside Verifiers that differs for
\* different verifiers.
generate_code_challenge(verifier) == verifier + Cardinality(Verifiers)

\* generate_code_verifier (lines 36-38): 40 random bytes, a value it has not
\* returned before; the values are opaque, so the next unused name stands
\* for it.
FreshVerifiers == {v \in Verifiers : v = generated + 1}

\* Faulty variant of ClientConfigured: the client id is never checked.
ClientConfiguredUnchecked(cid) == TRUE

\* `if not ORACLE_CLIENT_ID' (lines 49 and 101)
ClientConfigured(cid) == cid # ""

\* ---------------------------------------------- generate_code_verifier
\* secrets.token_bytes(40) (line 38)
VerifierBytes == 40

\* Byte values the random source is let to return here.
ByteSamples == {0, 255}

\* A base64 character is named by its 6-bit index 0..63 (in the URL-safe
\* alphabet: A-Z a-z 0-9 - _); Pad names the padding character '='.
Pad == 64

\* base64.urlsafe_b64encode of a full group of three bytes: four characters
B64Group(b) ==
    <<b[1] \div 4,
      (b[1] % 4) * 16 + b[2] \div 16,
      (b[2] % 16) * 4 + b[3] \div 64,
      b[3] % 64>>

\* base64.urlsafe_b64encode of the last, incomplete group: one byte gives
\* two characters and two pads, two bytes three characters and one pad.
B64Tail(b) ==
    IF Len(b) = 0 THEN <<>>
    ELSE IF Len(b) = 1 THEN <<b[1] \div 4, (b[1] % 4) * 16, Pad, Pad>>
    ELSE <<b[1] \div 4, (b[1] % 4) * 16 + b[2] \div 16, (b[2] % 16) * 4, Pad>>

\* Faulty variant of RStripPad: the padding is kept.
RStripPadNone(chars) == chars

\* .rstrip(b'=') (line 38): the trailing pads are removed
RECURSIVE RStripPad(_)
RStripPad(chars) ==
    IF Len(chars) > 0 /\ chars[Len(chars)] = Pad
    THEN RStripPad(SubSeq(chars, 1, Len(chars) - 1))
    ELSE chars

\* generate_code_verifier is called again after it has returned.
generate_code_verifier ==
    /\ pkce.length # 0
    /\ pkce' = [pkce EXCEPT !.n = 0, !.buf = <<>>, !.out_len = 0,
                            !.group = <<>>, !.length = 0]
    /\ UNCHANGED <<ORACLE_CLIENT_ID, code_verifier_store, access_token_cache, tasks,
                   used, generated, issued, resolved, posted, outcome, granted,
                   cleared, last>>

\* generate_code_verifier (line 38), a byte at a time: the random source
\* hands over the next byte; every third byte completes a group.
verifier_byte(b) ==
    /\ pkce.length = 0
    /\ pkce.n < VerifierBytes
    /\ LET buf == Append(pkce.buf, b) IN
       pkce' = IF Len(buf) = 3
               THEN [pkce EXCEPT !.n = @ + 1, !.buf = <<>>,
                                 !.out_len = @ + Len(B64Group(buf)),
                                 !.group = B64Group(buf)]
               ELSE [pkce EXCEPT !.n = @ + 1, !.buf = buf]
    /\ UNCHANGED <<ORACLE_CLIENT_ID, code_verifier_store, access_token_cache, tasks,
                   used, generated, issued, resolved, posted, outcome, granted,
                   cleared, last>>

\* generate_code_verifier (line 38), the end: the incomplete group is
\* encoded and padded, the padding is stripped, the text is returned.
verifier_return ==
    /\ pkce.length = 0
    /\ pkce.n = VerifierBytes
    /\ LET tail == RStripPad(B64Tail(pkce.buf)) IN
       pkce' = [pkce EXCEPT !.buf = <<>>, !.group = tail,
                            !.out_len = @ + Len(tail),
                            !.length = pkce.out_len + Len(tail)]
    /\ UNCHANGED <<ORACLE_CLIENT_ID, code_verifier_store, access_token_cache, tasks,
                   used, generated, issued, resolved, posted, outcome, granted,
                   cleared, last>>

\* generate_code_verifier called on its own, any number of times.
NextVerifier ==
    \/ generate_code_verifier
    \/ \E b \in ByteSamples : verifier_byte(b)
    \/ verifier_return

SpecVerifier == Init /\ [][NextVerifier]_vars

\* --------------------------------------------------------- response bodies
\* A JSON body is the set of its <<field, value>> pairs.  A value that is
\* fixed text, configuration or an echo of the request is named by a short
\* description; a value taken from the token response is that value.

\* token_data.get(key) of a 2xx token response: the access token, or the
\* opaque value of another field.
TokenDataGet(resp, key) ==
    IF key = "access_token" THEN resp.access_token ELSE "token_data." \o key

\* Faulty variant of CallbackSuccessBody: the whole token response is echoed.
CallbackSuccessBodyEchoAll(resp) ==
    {<<"message", "Authorization successful!">>,
     <<"redirect_to", "/static/index.html">>}
    \cup {<<k, TokenDataGet(resp, k)>> :
            k \in {"access_token", "token_type", "expires_in", "scope", "patient"}}

\* The 200 body of /callback (lines 230-237)
CallbackSuccessBody(resp) ==
    {<<"message", "Authorization successful!">>,
     <<"redirect_to", "/static/index.html">>}
    \cup {<<k, TokenDataGet(resp, k)>> :
            k \in {"token_type", "expires_in", "scope", "patient"}}

\* The 400 bodies of the `error' branch (lines 168-189)
OAuthErrorBody(q, launch) ==
    IF launch
    THEN {<<"error", "Launch Context Required">>,
          <<"message", "This app requires EHR launch context.">>,
          <<"details.error_code", q.error>>,
          <<"details.error_description", "query: error_description">>,
          <<"details.error_uri", q.error_uri>>,
          <<"details.solution", "change app launch type to 'Standalone'">>}
    ELSE {<<"error", "Authorization Failed">>,
          <<"error_code", q.error>>,
          <<"error_description", "query: error_description">>,
          <<"error_uri", q.error_uri>>}

\* The 400 body for a missing code (lines 197-204)
MissingCodeBody ==
    {<<"error", "Missing authorization code">>,
     <<"message", "No authorization code received from Oracle Health">>,
     <<"query_params", "query: all parameters">>}

\* The 400 body for a missing or unknown state (lines 207-213)
InvalidStateBody ==
    {<<"error", "Invalid state parameter">>,
     <<"message", "State parameter missing or invalid">>}

\* The 500 body of the except block (lines 240-247); the message is str(e),
\* kept in the event as `message'.
ExchangeFailedBody ==
    {<<"error", "Token exchange failed">>, <<"message", "str(e)">>}

\* The 200 body of /login (lines 138-146)
LoginBody ==
    {<<"auth_url", "auth_url">>,
     <<"message", "Visit the auth_url to authorize the application">>,
     <<"state", "state">>,
     <<"api_product", "Oracle Health FHIR APIs for Millennium: FHIR R4, All">>,
     <<"privacy", "Public">>, <<"launch_type", "Standalone">>,
     <<"fhir_version", "R4">>}

\* The body FastAPI renders for the HTTPException of line 102
LoginErrorBody == {<<"detail", "Oracle client ID not configured">>}

\* Faulty variant of HasActiveToken: the field reports that the service is
\* configured, not that a token is cached.
HasActiveTokenAlways(cache) == TRUE

\* `bool(access_token_cache)' (line 338): None is false, a cached token
\* (never the empty string, line 74) is true.
HasActiveToken(cache) == cache # NoToken

\* The body of /health (lines 325-339)
HealthBody(cache) ==
    {<<"status", "healthy">>,
     <<"service", "Oracle Health FHIR API Integration">>,
     <<"auth_flow", "OAuth2 PKCE">>,
     <<"client_id", "config: ORACLE_CLIENT_ID">>,
     <<"tenant_id", "config: TENANT_ID">>,
     <<"redirect_uri", "config: REDIRECT_URI">>,
     <<"endpoints", "config: AUTH_URL, TOKEN_URL, FHIR_BASE_URL">>,
     <<"has_active_token", IF HasActiveToken(cache) THEN "true" ELSE "false">>}

\* ------------------------------------------------------------- exceptions
\* The HTTPException of lines 50-53
ClientIdError ==
    [type |-> "HTTPException", status_code |-> 500,
     detail |-> "Oracle client ID not configured. Please check your .env file.",
     text |-> ""]

\* What exchange_code_for_token raises for an answer it does not return
\* (lines 70-85):
\*   non-2xx status: HTTPStatusError, turned by lines 79-83 into
\*     HTTPException(status_code = the answer's status,
\*                   detail = "Failed to exchange code for token: " + text)
\*   anything else (connection error, body that is not JSON, the
\*     HTTPException of line 75): turned by line 85 into HTTPException(500,
\*     "Error exchanging code for token: " + str(e))
ExchangeError(resp) ==
    IF resp.kind = "status"
    THEN [type |-> "HTTPException", status_code |-> resp.status,
          detail |-> "Failed to exchange code for token: {e.response.text}",
          text |-> resp.text]
    ELSE [type |-> "HTTPException", status_code |-> 500,
          detail |-> "Error exchanging code for token: {str(e)}",
          text |-> ""]

\* Faulty variant of FhirError: every failure of the resource server is
\* reported as a 500 of this service, without the answer's text.
FhirErrorMasked(resp) ==
    [type |-> "HTTPException", status_code |-> 500,
     detail |-> "Error fetching patients", text |-> ""]

\* What get_patients raises for a non-2xx answer of the resource server
\* (lines 301-315): for a 401 a fixed text, for any other status
\* HTTPException(status_code = the answer's status,
\*               detail = "FHIR API error: " + response.text)
FhirError(resp) ==
    IF resp.status = 401
    THEN [type |-> "HTTPException", status_code |-> 401,
          detail |-> "Access token expired or invalid. Please re-authorize.",
          text |-> ""]
    ELSE [type |-> "HTTPException", status_code |-> resp.status,
          detail |-> "FHIR API error: {error_response}",
          text |-> resp.text]

\* The body FastAPI renders for an HTTPException a handler raises:
\* {"detail": detail}, where the detail quotes the text the exception carries.
HTTPExceptionBody(e) == {<<"detail", e.detail>>, <<"detail: quoted text", e.text>>}

\* The TypeError of line 225: slicing a value that is not a string
SliceError ==
    [type |-> "TypeError", status_code |-> 0,
     detail |-> "object is not subscriptable", text |-> ""]

\* Faulty variant of ExceptionStr: the caller gets a fixed text.
ExceptionStrGeneric(e) ==
    [status |-> 0, detail |-> "Internal error", text |-> ""]

\* str(e) (line 245).  For an HTTPException it is Starlette's
\* "{status_code}: {detail}", so it shows the status and the whole detail,
\* quoted answer included; for another exception it is its message.
ExceptionStr(e) ==
    IF e.type = "HTTPException"
    THEN [status |-> e.status_code, detail |-> e.detail, text |-> e.text]
    ELSE [status |-> 0, detail |-> e.detail, text |-> e.text]

\* ----------------------------------------------------------------- /login
\* secrets.token_urlsafe(32) (line 109) returns a value it has not returned
\* before; the values are opaque, so the least unused name stands for it.
FreshStates ==
    {s \in States \ used : \A x \in States \ used : s <= x}

\* Faulty variant of AuthUrl: the URL carries a challenge and a state that
\* were fixed once, not those of this call.
AuthUrlFixed(code_challenge, state) ==
    [code_challenge |-> generate_code_challenge(1), state |-> 1]

\* The query parameters code_challenge and state of auth_url (lines 116-126):
\* both are interpolated as they are (base64url text needs no escaping).
AuthUrl(code_challenge, state) ==
    [code_challenge |-> code_challenge, state |-> state]

\* Faulty variant of StoreWith: one flow at a time, nothing is stored while
\* another entry is pending.
StoreWithIfEmpty(store, state, code_verifier) ==
    IF \E s \in States : store[s] # NoEntry
    THEN store
    ELSE [store EXCEPT ![state] = code_verifier]

\* Faulty variant of StoreWith: the store is rebuilt with the new entry only.
StoreOnly(store, state, code_verifier) ==
    [s \in States |-> IF s = state THEN code_verifier ELSE NoEntry]

\* `code_verifier_store[state] = code_verifier' (line 112): a plain dict
\* assignment, whatever the store holds under that key
StoreWith(store, state, code_verifier) ==
    [store EXCEPT ![state] = code_verifier]

login(s, v) ==
    /\ IF ~ClientConfigured(ORACLE_CLIENT_ID)
       THEN \* line 102 raises before anything is generated
            /\ v = generated + 1
            /\ last' = [Event("login") EXCEPT !.status = 500,
                          !.error = "Oracle client ID not configured",
                          !.body = LoginErrorBody]
            /\ UNCHANGED <<code_verifier_store, used, generated, issued, resolved, posted,
                           outcome>>
       ELSE /\ code_verifier_store' = StoreWith(code_verifier_store, s, v)
            /\ used' = used \cup {s}
            /\ generated' = generated + 1
            /\ issued' = [issued EXCEPT ![s] = v]
            /\ resolved' = [resolved EXCEPT ![s] = 0]
            /\ posted' = [posted EXCEPT ![s] = 0]
            /\ outcome' = [outcome EXCEPT ![s] = "none"]
            /\ last' = [Event("login") EXCEPT !.status = 200,
                          !.login_state = s,
                          !.challenge =
                              AuthUrl(generate_code_challenge(v), s).code_challenge,
                          !.url_state =
                              AuthUrl(generate_code_challenge(v), s).state,
                          !.body = LoginBody]
    /\ UNCHANGED <<pkce, ORACLE_CLIENT_ID, access_token_cache, tasks, granted, cleared>>

\* -------------------------------------------------------------- /callback
\* `"launch:code-required" in error_uri or error_code == "invalid_request"'
\* (line 167)
IsLaunchContextError(q) ==
    \/ q.error_uri = LaunchUri
    \/ q.error = "invalid_request"

\* Faulty variant of StateInvalid: only a missing state is refused, the lookup in
\* the store is forgotten.
StateInvalidOnlyMissing(store, state) == state = NoState

\* `not state or state not in code_verifier_store' (line 206)
StateInvalid(store, state) ==
    \/ state = NoState
    \/ store[state] = NoEntry

\* Faulty variant of CallbackBranch: a state that is present is taken on trust.
CallbackBranchNoLookup(q, store) ==
    IF q.error # NoParam THEN "oauth_error"
    ELSE IF q.code = NoCode THEN "missing_code"
    ELSE IF q.state = NoState THEN "invalid_state"
    ELSE "exchange"

\* Faulty variant of CallbackBranch: the OAuth error parameter is looked at last.
CallbackBranchErrorLast(q, store) ==
    IF q.code = NoCode
    THEN (IF q.error # NoParam THEN "oauth_error" ELSE "missing_code")
    ELSE IF StateInvalid(store, q.state)
    THEN (IF q.error # NoParam THEN "oauth_error" ELSE "invalid_state")
    ELSE "exchange"

\* Faulty variant of CallbackBranch: an OAuth error that names a state also
\* ends the flow of that state, as if its code had been exchanged.
CallbackBranchErrorConsumes(q, store) ==
    IF q.error # NoParam /\ (StateInvalid(store, q.state) \/ q.code = NoCode)
    THEN "oauth_error"
    ELSE IF q.code = NoCode THEN "missing_code"
    ELSE IF StateInvalid(store, q.state) THEN "invalid_state"
    ELSE "exchange"

\* Faulty variant of CallbackBranch: the state is checked before the code.
CallbackBranchStateFirst(q, store) ==
    IF q.error # NoParam THEN "oauth_error"
    ELSE IF StateInvalid(store, q.state) THEN "invalid_state"
    ELSE IF q.code = NoCode THEN "missing_code"
    ELSE "exchange"

\* The order of the checks of lines 157-213.
CallbackBranch(q, store) ==
    IF q.error # NoParam THEN "oauth_error"
    ELSE IF q.code = NoCode THEN "missing_code"
    ELSE IF StateInvalid(store, q.state) THEN "invalid_state"
    ELSE "exchange"

\* Faulty variant of PopStore: consuming one entry empties the whole store.
PopStoreAll(store, state) == [s \in States |-> NoEntry]

\* Faulty variant of PopStore: the entry is read but not removed (get, not pop).
PopStoreKeep(store, state) == store

\* code_verifier_store.pop(state) (line 217): the store afterwards
PopStore(store, state) == [store EXCEPT ![state] = NoEntry]

\* Faulty variant of PopValue: the verifier of another pending flow is returned.
PopValueOther(store, state) ==
    LET other == CHOOSE s \in States : s # state IN
    IF store[other] # NoEntry THEN store[other] ELSE store[state]

\* code_verifier_store.pop(state) (line 217): the value returned
PopValue(store, state) == store[state]

callback(q) ==
    /\ LET branch == CallbackBranch(q, code_verifier_store) IN
       CASE branch = "oauth_error" ->
              /\ last' = [Event("callback") EXCEPT !.q = q, !.status = 400,
                            !.error = IF IsLaunchContextError(q)
                                      THEN "Launch Context Required"
                                      ELSE "Authorization Failed",
                            !.body = OAuthErrorBody(q, IsLaunchContextError(q))]
              /\ UNCHANGED <<code_verifier_store, tasks, resolved, posted, outcome>>
         [] branch = "missing_code" ->
              /\ last' = [Event("callback") EXCEPT !.q = q, !.status = 400,
                            !.error = "Missing authorization code",
                            !.body = MissingCodeBody]
              /\ UNCHANGED <<code_verifier_store, tasks, resolved, posted, outcome>>
         [] branch = "invalid_state" ->
              /\ last' = [Event("callback") EXCEPT !.q = q, !.status = 400,
                            !.error = "Invalid state parameter",
                            !.body = InvalidStateBody]
              /\ UNCHANGED <<code_verifier_store, tasks, resolved, posted, outcome>>
         [] branch = "exchange" ->
              LET code_verifier == PopValue(code_verifier_store, q.state) IN
              /\ code_verifier_store' = PopStore(code_verifier_store, q.state)
              /\ resolved' = [resolved EXCEPT ![q.state] = Bump(@)]
              /\ IF ~ClientConfigured(ORACLE_CLIENT_ID)
                 THEN \* line 50 raises, line 239 catches
                      /\ last' = [Event("callback") EXCEPT !.q = q,
                                    !.status = 500,
                                    !.error = "Token exchange failed",
                                    !.exc = ClientIdError,
                                    !.message = ExceptionStr(ClientIdError),
                                    !.body = ExchangeFailedBody]
                      /\ outcome' = [outcome EXCEPT ![q.state] = "failed"]
                      /\ UNCHANGED <<tasks, posted>>
                 ELSE \* line 69: the POST is sent and the handler suspends
                      /\ CanSuspend
                      /\ tasks' = tasks (+) SetToBag(
                                     {AwaitPost(q.code, q.state, code_verifier)})
                      /\ posted' = [posted EXCEPT ![q.state] = Bump(@)]
                      /\ UNCHANGED outcome
                      /\ last' = [Event("callback") EXCEPT !.q = q,
                                    !.post_code = q.code,
                                    !.post_verifier = code_verifier,
                                    !.sent = 1]
    /\ UNCHANGED <<pkce, ORACLE_CLIENT_ID, access_token_cache, used, generated, issued, granted,
                   cleared>>

\* Faulty variant of ExchangeReturns: any answer that arrives is returned,
\* neither its status nor its access_token is looked at.
ExchangeReturnsAnyAnswer(resp) == resp.kind # "transport"

\* Faulty variant of ExchangeReturns: the check of line 74 is missing.
ExchangeReturnsUnchecked(resp) == resp.kind = "json"

\* exchange_code_for_token from line 70 on: does it return token_data?
\* (line 70 raises on a non-2xx status, line 72 on a body that is not JSON,
\* line 74 on a missing or empty access_token)
ExchangeReturns(resp) ==
    /\ resp.kind = "json"
    /\ resp.access_token # NoToken

\* access_token_cache[:20] (lines 225 and 278) works on a string only
Sliceable(token) == token # NonStrToken

\* Faulty variant of StoreAfterExchange: the entry is put back once the
\* exchange has ended, however it ended.
StoreRestoredAlways(store, r, returned) == [store EXCEPT ![r.state] = r.verifier]

\* Faulty variant of StoreAfterExchange: a failed exchange puts the entry back.
StoreRestoredOnFailure(store, r, returned) ==
    IF returned THEN store ELSE [store EXCEPT ![r.state] = r.verifier]

\* The store after the exchange of a suspended /callback r has ended: neither
\* the success path (lines 220-237) nor the except block (lines 239-247)
\* touches code_verifier_store.
StoreAfterExchange(store, r, returned) == store

\* Faulty variant of CacheAfterExchange: a failed exchange resets the cache.
CacheResetOnFailure(cache, resp) ==
    IF ExchangeReturns(resp) THEN resp.access_token ELSE NoToken

\* Faulty variant of CacheAfterExchange: a token already cached is kept, the
\* new one is dropped.
CacheKeepsFirst(cache, resp) ==
    IF ExchangeReturns(resp) /\ cache = NoToken THEN resp.access_token ELSE cache

\* The cache after the exchange of a suspended /callback has ended: line 222
\* assigns the access_token of the response when exchange_code_for_token
\* returned; when it raised, line 222 is not reached and the except block
\* (lines 239-247) assigns nothing.
CacheAfterExchange(cache, resp) ==
    IF ExchangeReturns(resp) THEN resp.access_token ELSE cache

callback_resume(r, resp) ==
    /\ r.pc = "await_post"
    /\ BagIn(r, tasks)
    /\ tasks' = AfterAnswer(tasks, r, resp)
    /\ LET q == [NoQuery EXCEPT !.code = r.code, !.state = r.state]
           ev == [Event("callback_resume") EXCEPT !.q = q,
                    !.post_verifier = r.verifier,
                    !.upstream = resp.kind, !.upstream_status = resp.status,
                    !.upstream_text = resp.text,
                    !.token = resp.access_token]
       IN
       IF ExchangeReturns(resp)
       THEN /\ granted' = resp.access_token
            /\ cleared' = FALSE
            /\ outcome' = [outcome EXCEPT ![r.state] = "ok"]
            /\ last' = IF Sliceable(resp.access_token)
                       THEN [ev EXCEPT !.status = 200,
                                       !.body = CallbackSuccessBody(resp)]
                       ELSE \* line 225 raises TypeError, line 239 catches
                            [ev EXCEPT !.status = 500,
                                       !.error = "Token exchange failed",
                                       !.exc = SliceError,
                                       !.message = ExceptionStr(SliceError),
                                       !.body = ExchangeFailedBody]
       ELSE /\ last' = [ev EXCEPT !.status = 500,
                                  !.error = "Token exchange failed",
                                  !.exc = ExchangeError(resp),
                                  !.message = ExceptionStr(ExchangeError(resp)),
                                  !.body = ExchangeFailedBody]
            /\ outcome' = [outcome EXCEPT ![r.state] = "failed"]
            /\ UNCHANGED <<granted, cleared>>
    /\ access_token_cache' = CacheAfterExchange(access_token_cache, resp)
    /\ code_verifier_store' =
           StoreAfterExchange(code_verifier_store, r, ExchangeReturns(resp))
    /\ UNCHANGED <<pkce, ORACLE_CLIENT_ID, used, generated, issued, resolved, posted>>

\* -------------------------------------------------------------- /patients
\* f"Bearer {access_token_cache}" (line 267): the token put in the header
BearerOf(cache) == cache

\* Faulty variant of TokenMissing: the request goes out whatever the cache holds.
TokenMissingNever(cache) == FALSE

\* `not access_token_cache' (line 258)
TokenMissing(cache) == cache = NoToken

get_patients ==
    /\ IF TokenMissing(access_token_cache)                     \* line 258
       THEN /\ last' = [Event("patients") EXCEPT !.status = 401,
                          !.error = "No access token available"]
            /\ UNCHANGED tasks
       ELSE IF ~Sliceable(access_token_cache)
       THEN \* line 278 raises TypeError, line 316 catches
            /\ last' = [Event("patients") EXCEPT !.status = 500,
                          !.error = "Error"]
            /\ UNCHANGED tasks
       ELSE \* line 282: the GET is sent and the handler suspends
            /\ CanSuspend
            /\ tasks' = tasks (+) SetToBag({AwaitGet(BearerOf(access_token_cache))})
            /\ last' = [Event("patients") EXCEPT
                          !.get_bearer = BearerOf(access_token_cache),
                          !.sent = 1]
    /\ UNCHANGED <<pkce, ORACLE_CLIENT_ID, code_verifier_store, access_token_cache,
                   used, generated, issued, resolved, posted, outcome, granted, cleared>>

\* Faulty variant of CacheAfterStatusError: a 401 does not empty the cache.
CacheKeptOn401(cache, status) == cache

\* Faulty variant of CacheAfterStatusError: every error status empties the cache.
CacheClearedOnAnyStatus(cache, status) == NoToken

\* lines 305-306: the cache after an HTTPStatusError with this status
CacheAfterStatusError(cache, status) ==
    IF status = 401 THEN NoToken ELSE cache

\* Faulty variant of CacheAfterGet: a token is good for one successful call.
CacheConsumedByGet(cache, resp) ==
    IF resp.kind = "json" THEN NoToken
    ELSE IF resp.kind = "status" THEN CacheAfterStatusError(cache, resp.status)
    ELSE cache

\* The cache once the GET of line 282 has its answer: the success path
\* (lines 283-301) and the generic except (lines 316-318) do not assign it,
\* the HTTPStatusError handler does (lines 305-306).
CacheAfterGet(cache, resp) ==
    IF resp.kind = "status" THEN CacheAfterStatusError(cache, resp.status)
    ELSE cache

get_patients_resume(r, resp) ==
    /\ r.pc = "await_get"
    /\ BagIn(r, tasks)
    /\ tasks' = AfterAnswer(tasks, r, resp)
    /\ LET ev == [Event("patients_resume") EXCEPT
                    !.upstream = resp.kind, !.upstream_status = resp.status,
                    !.upstream_text = resp.text,
                    !.token = r.bearer]
       IN
       CASE resp.kind = "json" ->
              /\ last' = [ev EXCEPT !.status = 200]
              /\ UNCHANGED <<granted, cleared>>
         [] resp.kind = "status" ->
              /\ cleared' = IF resp.status = 401 THEN TRUE ELSE cleared
              /\ granted' = IF resp.status = 401 THEN NoToken ELSE granted
              /\ last' = [ev EXCEPT !.status = FhirError(resp).status_code,
                            !.error = IF resp.status = 401
                                      THEN "Access token expired or invalid. Please re-authorize."
                                      ELSE "FHIR API error",
                            !.exc = FhirError(resp),
                            !.body = HTTPExceptionBody(FhirError(resp))]
         [] resp.kind = "transport" ->
              /\ last' = [ev EXCEPT !.status = 500, !.error = "Error"]
              /\ UNCHANGED <<granted, cleared>>
    /\ access_token_cache' = CacheAfterGet(access_token_cache, resp)
    /\ UNCHANGED <<pkce, ORACLE_CLIENT_ID, code_verifier_store, used, generated, issued,
                   resolved, posted, outcome>>

\* ---------------------------------------------------------------- /health
health_check ==
    /\ last' = [Event("health") EXCEPT !.status = 200,
                  !.has_active_token = HasActiveToken(access_token_cache),
                  !.body = HealthBody(access_token_cache)]
    /\ UNCHANGED <<pkce, ORACLE_CLIENT_ID, code_verifier_store, access_token_cache,
                   tasks, used, generated, issued, resolved, posted, outcome, granted,
                   cleared>>

\* ------------------------------------------------------------------- Next
Next ==
    \/ \E s \in FreshStates, v \in FreshVerifiers : login(s, v)
    \/ \E q \in CallbackQueries : callback(q)
    \/ \E r \in BagToSet(tasks), resp \in TokenResponses : callback_resume(r, resp)
    \/ get_patients
    \/ \E r \in BagToSet(tasks), resp \in ResourceResponses :
          get_patients_resume(r, resp)
    \/ health_check

Spec == Init /\ [][Next]_vars

\* The same program without the assumption that secrets.token_urlsafe(32)
\* never repeats a value: line 109 may return any state value, one that is
\* in the store included. Lines 109-112 hold no check of the value.
NextCollide ==
    \/ \E s \in States, v \in FreshVerifiers : login(s, v)
    \/ \E q \in CallbackQueries : callback(q)
    \/ \E r \in BagToSet(tasks), resp \in TokenResponses : callback_resume(r, resp)
    \/ get_patients
    \/ \E r \in BagToSet(tasks), resp \in ResourceResponses :
          get_patients_resume(r, resp)
    \/ health_check

SpecCollide == Init /\ [][NextCollide]_vars

\* The authorization flow on its own: /login and /callback.  /patients and
\* /health are left out: they assign neither code_verifier_store nor a
\* suspended /callback, and no step of /login or /callback reads what they
\* write.
NextFlow ==
    \/ \E s \in FreshStates, v \in FreshVerifiers : login(s, v)
    \/ \E q \in CallbackQueries : callback(q)
    \/ \E r \in BagToSet(tasks), resp \in TokenResponses : callback_resume(r, resp)

\* The token endpoint answers every POST or the connection fails (httpx
\* raises on a connection error and on its default timeout), so a /callback
\* suspended at line 69 is resumed sooner or later.  (A state is exchanged
\* at most once, so finitely many callbacks are ever suspended and fairness
\* of the resumption as a whole reaches each of them.)
EveryPostIsAnswered ==
    WF_vars(\E r \in BagToSet(tasks), resp \in TokenResponses :
               callback_resume(r, resp))

SpecFlow == Init /\ [][NextFlow]_vars /\ EveryPostIsAnswered

\* ------------------------------------------- exchange_code_for_token alone
\* exchange_code_for_token called on its own with a code and a verifier (it
\* is a module-level coroutine: /callback is its one caller in main.py, and
\* reaches it only for a state that /login stored).  Lines 49-69: the
\* client id check, then the POST and the await.
AwaitPostDirect(code, code_verifier) ==
    [AwaitPost(code, NoState, code_verifier) EXCEPT !.pc = "await_post_direct"]

exchange_code_for_token(code, code_verifier) ==
    /\ IF ~ClientConfigured(ORACLE_CLIENT_ID)
       THEN \* lines 50-53 raise before the request is built
            /\ last' = [Event("exchange") EXCEPT !.status = ClientIdError.status_code,
                          !.exc = ClientIdError]
            /\ UNCHANGED tasks
       ELSE \* line 69: the POST is sent and the coroutine suspends
            /\ CanSuspend
            /\ tasks' = tasks (+) SetToBag({AwaitPostDirect(code, code_verifier)})
            /\ last' = [Event("exchange") EXCEPT !.post_code = code,
                          !.post_verifier = code_verifier,
                          !.sent = 1]
    /\ UNCHANGED <<pkce, ORACLE_CLIENT_ID, code_verifier_store, access_token_cache, used,
                   generated, issued, resolved, posted, outcome, granted, cleared>>

\* Lines 70-85: the answer is returned or turned into an HTTPException; the
\* coroutine itself assigns neither the store nor the cache.
exchange_code_for_token_resume(r, resp) ==
    /\ r.pc = "await_post_direct"
    /\ BagIn(r, tasks)
    /\ tasks' = AfterAnswer(tasks, r, resp)
    /\ LET ev == [Event("exchange_resume") EXCEPT
                    !.post_verifier = r.verifier,
                    !.upstream = resp.kind, !.upstream_status = resp.status,
                    !.upstream_text = resp.text,
                    !.token = resp.access_token]
       IN  last' = IF ExchangeReturns(resp)
                   THEN ev
                   ELSE [ev EXCEPT !.status = ExchangeError(resp).status_code,
                                   !.exc = ExchangeError(resp)]
    /\ UNCHANGED <<pkce, ORACLE_CLIENT_ID, code_verifier_store, access_token_cache, used,
                   generated, issued, resolved, posted, outcome, granted, cleared>>

\* /login and /health together with direct calls of exchange_code_for_token.
NextExchange ==
    \/ \E s \in FreshStates, v \in FreshVerifiers : login(s, v)
    \/ \E code \in Codes, v \in Verifiers : exchange_code_for_token(code, v)
    \/ \E r \in BagToSet(tasks), resp \in TokenResponses :
          exchange_code_for_token_resume(r, resp)
    \/ health_check

SpecExchange == Init /\ [][NextExchange]_vars

\* ================================================================ claims
\* The latest step was a /callback carrying a code, no error and state s.
CallbackWithCode(s) ==
    /\ last.op = "callback"
    /\ last.q.error = NoParam
    /\ last.q.code # NoCode
    /\ last.q.state = s

\* The latest step refused a /callback with 400 "Invalid state parameter"
\* and sent nothing to the token endpoint.
RejectedInvalidState ==
    /\ last.op = "callback"
    /\ last.status = 400
    /\ last.error = "Invalid state parameter"
    /\ last.post_verifier = NoEntry
    /\ last.post_code = NoCode

\* The latest step sent the token POST of line 69.
SentTokenPost == last.op = "callback" /\ last.status = 0

\* Number of /callback requests suspended in the exchange for state s.
SuspendedCallbacks(s) ==
    LET mine == {r \in BagToSet(tasks) : r.pc = "await_post" /\ r.state = s}
    IN  BagCardinality([r \in mine |-> tasks[r]])

\* C1: for every state s issued by /login at most one /callback presenting s
\* passes the state check and at most one token POST is sent for it; once s
\* has been resolved it is gone from the store, and a later /callback that
\* presents s gets 400 "Invalid state parameter" and sends no POST.
C1_StateResolvedAtMostOnce ==
    \A s \in States :
        /\ resolved[s] <= 1
        /\ posted[s] <= resolved[s]
        /\ resolved[s] >= 1 => code_verifier_store[s] = NoEntry
        /\ (CallbackWithCode(s) /\ resolved[s] >= 1 /\ last.store_before[s] = NoEntry)
              => RejectedInvalidState

\* C1 witness: s was issued, resolved by one callback whose POST went out,
\* and the latest step is a replayed callback for s that was refused.
C1_Witness ==
    \E s \in States :
        /\ issued[s] # NoEntry
        /\ resolved[s] = 1
        /\ posted[s] = 1
        /\ CallbackWithCode(s)
        /\ last.store_before[s] = NoEntry
        /\ RejectedInvalidState

\* C2: of the /callback requests in flight for the same state at most one is
\* suspended in the token exchange; while it awaits the network the entry is
\* already gone from the store, and a callback for that state that runs
\* meanwhile gets 400 "Invalid state parameter".
C2_ConcurrentCallbacksOneWinner ==
    /\ \A s \in States : SuspendedCallbacks(s) <= 1
    /\ \A r \in BagToSet(tasks) :
          r.pc = "await_post" => code_verifier_store[r.state] = NoEntry
    /\ \A s \in States :
          (CallbackWithCode(s) /\ SuspendedCallbacks(s) >= 1)
             => \/ SentTokenPost /\ last.store_before[s] # NoEntry
                \/ RejectedInvalidState

\* C2 witness: one callback for s is suspended in its exchange and the latest
\* step is a second callback for s, refused.
C2_Witness ==
    \E s \in States :
        /\ SuspendedCallbacks(s) = 1
        /\ CallbackWithCode(s)
        /\ RejectedInvalidState

\* C3: a token POST is sent only by a /callback whose state is in the store
\* at that moment, and the code_verifier it carries (and the suspended
\* request holds) is the verifier /login stored under that state.
C3_ExchangeUsesStoredVerifier ==
    /\ SentTokenPost =>
          /\ last.q.state \in States
          /\ last.store_before[last.q.state] # NoEntry
          /\ last.post_verifier = last.store_before[last.q.state]
          /\ last.post_verifier = issued[last.q.state]
    /\ \A r \in BagToSet(tasks) :
          r.pc = "await_post" =>
             /\ r.verifier # NoEntry
             /\ r.verifier = issued[r.state]

\* C3 witness: two flows with different verifiers are pending and the
\* callback of one of them has just sent its POST.
C3_Witness ==
    /\ SentTokenPost
    /\ \E s \in States :
          /\ s # last.q.state
          /\ code_verifier_store[s] # NoEntry
          /\ code_verifier_store[s] # last.post_verifier

\* C4: a /callback with a code, no error and a state that is missing or not
\* in the store returns 400 "Invalid state parameter", sends no POST and
\* leaves the store and the cache as they were.
C4_InvalidStateRejected ==
    ( /\ last.op = "callback"
      /\ last.q.error = NoParam
      /\ last.q.code # NoCode
      /\ \/ last.q.state = NoState
         \/ last.store_before[last.q.state] = NoEntry )
    => /\ RejectedInvalidState
       /\ code_verifier_store = last.store_before
       /\ access_token_cache = last.cache_before

\* C4 witness: another flow is pending and a token is cached when a callback
\* with an unknown state is refused.
C4_Witness ==
    /\ last.op = "callback"
    /\ last.q.error = NoParam
    /\ last.q.code # NoCode
    /\ last.q.state \in States
    /\ last.store_before[last.q.state] = NoEntry
    /\ \E s \in States : last.store_before[s] # NoEntry
    /\ last.cache_before # NoToken
    /\ RejectedInvalidState

\* C5: a /callback with an error parameter returns 400, sends no POST and
\* leaves the store (the entry of the presented state included) and the
\* cache as they were, whatever code and state come with it.
C5_ErrorBranchTouchesNothing ==
    (last.op = "callback" /\ last.q.error # NoParam)
    => /\ last.status = 400
       /\ last.error \in {"Launch Context Required", "Authorization Failed"}
       /\ last.post_verifier = NoEntry
       /\ last.post_code = NoCode
       /\ code_verifier_store = last.store_before
       /\ access_token_cache = last.cache_before

\* C5 witness: the error callback also carried a code and a state whose
\* entry is pending, and the entry is still there.
C5_Witness ==
    /\ last.op = "callback"
    /\ last.q.error # NoParam
    /\ last.q.code # NoCode
    /\ last.q.state \in States
    /\ last.store_before[last.q.state] # NoEntry
    /\ code_verifier_store[last.q.state] = last.store_before[last.q.state]
    /\ last.status = 400

\* The latest step ended a token exchange in failure (lines 239-247).
ExchangeFailedNow ==
    /\ last.op \in {"callback", "callback_resume"}
    /\ last.status = 500
    /\ last.error = "Token exchange failed"
    /\ ~(last.upstream = "json" /\ last.token # NoToken)

\* C6: once the exchange of the callback that consumed s has failed, s is
\* absent from the store, and a replay of the callback gets 400 "Invalid
\* state parameter" and sends no second POST.
C6_FailedExchangeKeepsStateConsumed ==
    /\ ExchangeFailedNow => code_verifier_store[last.q.state] = NoEntry
    /\ \A s \in States :
          outcome[s] = "failed" =>
             /\ code_verifier_store[s] = NoEntry
             /\ posted[s] <= 1
             /\ CallbackWithCode(s) => RejectedInvalidState

\* C6 witness: the exchange for s failed after its POST was sent, and the
\* latest step is the replayed callback, refused.
C6_Witness ==
    \E s \in States :
        /\ outcome[s] = "failed"
        /\ posted[s] = 1
        /\ CallbackWithCode(s)
        /\ RejectedInvalidState

\* C7: the cache is empty at process start; a step that leaves it non-empty
\* and changed is the resumption of a /callback whose exchange returned, and
\* the cache then holds the access_token of that response; no /callback step
\* empties the cache or stores an empty token.
C7_CacheHoldsExchangedToken ==
    /\ last.op = "start" => access_token_cache = NoToken
    /\ (access_token_cache # NoToken /\ access_token_cache # last.cache_before)
          => /\ last.op = "callback_resume"
             /\ last.upstream = "json"
             /\ last.token # NoToken
             /\ access_token_cache = last.token
    /\ access_token_cache # NoToken => access_token_cache = granted
    /\ (last.op \in {"callback", "callback_resume"} /\ last.cache_before # NoToken)
          => access_token_cache # NoToken

\* C7 witness: a token was cached, and a later exchange whose response had
\* no access_token has just failed, leaving the cached token in place.
C7_Witness ==
    /\ last.op = "callback_resume"
    /\ last.upstream = "json"
    /\ last.token = NoToken
    /\ last.cache_before \in StrTokens
    /\ access_token_cache = last.cache_before

\* A /patients request has just started while the token of the latest
\* exchange that returned is in force (no later exchange, no 401 since).
PatientsStartedWithGrant ==
    /\ last.op = "patients"
    /\ granted # NoToken

\* C8: while the token T of the latest successful /callback exchange is in
\* force (no later successful exchange, no 401-triggered clear since), a
\* /patients request sends its GET with "Authorization: Bearer T".
C8_PatientsSendsGrantedToken ==
    PatientsStartedWithGrant
    => /\ last.status = 0
       /\ last.sent = 1
       /\ last.get_bearer = granted
       /\ BagIn(AwaitGet(granted), tasks)

\* C9: a 401 from the resource server empties the cache and the caller gets
\* 401 "re-authorize"; until an exchange returns again the cache stays empty
\* and /patients answers 401 "No access token available" without sending a
\* GET.
C9_Upstream401ClearsCache ==
    /\ (last.op = "patients_resume" /\ last.upstream = "status"
          /\ last.upstream_status = 401)
          => /\ access_token_cache = NoToken
             /\ last.status = 401
             /\ last.error = "Access token expired or invalid. Please re-authorize."
    /\ cleared => access_token_cache = NoToken
    /\ (cleared /\ last.op = "patients")
          => /\ last.status = 401
             /\ last.error = "No access token available"
             /\ last.get_bearer = NoToken
             /\ ~BagIn(AwaitGet(NoToken), tasks)

\* C9 witness: after a 401 emptied a non-empty cache, the next /patients has
\* been answered 401 "No access token available".
C9_Witness ==
    /\ cleared
    /\ last.op = "patients"
    /\ last.status = 401
    /\ last.error = "No access token available"

\* C10: the cache goes from non-empty to empty only in the step in which a
\* /patients request receives 401 from the resource server.
C10_OnlyUpstream401EmptiesCache ==
    (last.cache_before # NoToken /\ access_token_cache = NoToken)
    => /\ last.op = "patients_resume"
       /\ last.upstream = "status"
       /\ last.upstream_status = 401

\* C10 witness: the resource server answered 404 and the token is still
\* cached.
C10_Witness ==
    /\ last.op = "patients_resume"
    /\ last.upstream = "status"
    /\ last.upstream_status = 404
    /\ last.cache_before # NoToken
    /\ access_token_cache = last.cache_before

\* The latest step is a /patients request that got 401 from the resource
\* server (lines 305-310).
Got401 ==
    /\ last.op = "patients_resume"
    /\ last.upstream = "status"
    /\ last.upstream_status = 401

\* C11: a 401 removes only the token it was issued for: when the token in
\* the cache is not the one the request sent (a /callback installed a newer
\* one while the request was awaiting the resource server), the 401 leaves
\* the cached token in place.
C11_Stale401KeepsNewerToken ==
    (Got401 /\ last.cache_before # NoToken /\ last.cache_before # last.token)
    => access_token_cache = last.cache_before

\* C12: a /callback whose token exchange failed leaves the cache as the
\* step found it; a /callback step that changes the cache is the resumption
\* of an exchange that returned a token; and a string token that a /callback
\* step found in the cache and left there is what the next /patients sends.
C12_FailedExchangeKeepsCache ==
    /\ ExchangeFailedNow => access_token_cache = last.cache_before
    /\ (last.op \in {"callback", "callback_resume"}
          /\ access_token_cache # last.cache_before)
          => /\ last.op = "callback_resume"
             /\ last.upstream = "json"
             /\ last.token # NoToken
    /\ (last.op = "patients" /\ last.cache_before \in StrTokens)
          => /\ last.get_bearer = last.cache_before
             /\ access_token_cache = last.cache_before

\* C12 witness: token-a was cached when the token endpoint refused an
\* exchange with an error status; the callback answered 500 and token-a is
\* still cached.
C12_Witness ==
    /\ ExchangeFailedNow
    /\ last.op = "callback_resume"
    /\ last.upstream = "status"
    /\ last.cache_before = "token-a"
    /\ access_token_cache = "token-a"

\* The latest step is the resumption of a /callback whose exchange returned
\* a token.
ExchangeReturnedNow ==
    /\ last.op = "callback_resume"
    /\ last.upstream = "json"
    /\ last.token # NoToken

\* C13: the cache is one value, empty or one token; an exchange that returns
\* replaces whatever was cached by its own token; and as long as no 401 has
\* come after the exchange that returned last, the cache holds the token of
\* that exchange.
C13_LastExchangeWins ==
    /\ access_token_cache \in {NoToken, NonStrToken} \cup StrTokens
    /\ ExchangeReturnedNow => access_token_cache = last.token
    /\ granted # NoToken => access_token_cache = granted
    /\ (cleared \/ last.op = "start") => granted = NoToken

\* C13 witness: two flows have exchanged their codes; the one that completed
\* last returned token-b and found token-a cached; the cache holds token-b.
C13_Witness ==
    /\ ExchangeReturnedNow
    /\ \A s \in States : outcome[s] = "ok"
    /\ last.cache_before = "token-a"
    /\ last.token = "token-b"
    /\ access_token_cache = "token-b"
    /\ ~cleared

\* States whose entry is in the store.
Pending == {s \in States : code_verifier_store[s] # NoEntry}

\* C14: the states /login has handed out are distinct keys, each holding the
\* verifier generated for it, and no two of them hold the same verifier; the
\* /callback that consumes one of them removes that entry alone, every other
\* entry stays as it was, resolvable to its own verifier.
C14_LoginsHaveSeparateEntries ==
    /\ \A s \in Pending : code_verifier_store[s] = issued[s]
    /\ \A s, t \in Pending : s # t => code_verifier_store[s] # code_verifier_store[t]
    /\ (last.op = "login" /\ last.status = 200)
          => /\ last.store_before[last.login_state] = NoEntry
             /\ \A t \in States \ {last.login_state} :
                   code_verifier_store[t] = last.store_before[t]
    /\ SentTokenPost
          => /\ code_verifier_store[last.q.state] = NoEntry
             /\ \A t \in States \ {last.q.state} :
                   code_verifier_store[t] = last.store_before[t]

\* C14 witness: two logins stored two entries; a callback has just consumed
\* one of them and the other is still there with its own verifier.
C14_Witness ==
    /\ SentTokenPost
    /\ \E t \in States \ {last.q.state} :
          /\ last.store_before[t] # NoEntry
          /\ last.store_before[t] # last.store_before[last.q.state]
          /\ code_verifier_store[t] = issued[t]

\* C15: a /login whose generated state is already a key of the store ends
\* in a conflict error, not in 200, and the entry under that key keeps the
\* verifier it had.
C15_CollisionIsConflict ==
    (last.op = "login" /\ last.login_state # NoState
       /\ last.store_before[last.login_state] # NoEntry)
    => /\ last.status # 200
       /\ code_verifier_store[last.login_state] = last.store_before[last.login_state]

\* C16: in every state reached by interleaving /login and /callback
\* requests, each state that a completed /login issued and that no callback
\* carrying it has consumed is in the store with the verifier /login
\* generated for it; and a /callback step, suspended or resumed, leaves the
\* entries of all states other than its own as they were.
C16_NoEntryLost ==
    /\ \A s \in States :
          (issued[s] # NoEntry /\ resolved[s] = 0)
             => code_verifier_store[s] = issued[s]
    /\ last.op \in {"callback", "callback_resume"}
          => \A t \in States \ {last.q.state} :
                code_verifier_store[t] = last.store_before[t]

\* C16 witness: a /login has just completed while the callback of another
\* flow is suspended in its token exchange; the new entry is in the store
\* with its verifier.
C16_Witness ==
    /\ last.op = "login"
    /\ last.status = 200
    /\ code_verifier_store[last.login_state] = issued[last.login_state]
    /\ \E r \in BagToSet(tasks) :
          /\ r.pc = "await_post"
          /\ r.state # last.login_state
          /\ resolved[r.state] = 1

\* C17: in every /login response the code_challenge of the authorize URL is
\* generate_code_challenge of the verifier that the store holds under the
\* state of that response, and the state parameter of the URL is that state.
C17_UrlChallengeMatchesStoredVerifier ==
    (last.op = "login" /\ last.status = 200)
    => /\ last.login_state \in States
       /\ code_verifier_store[last.login_state] \in Verifiers
       /\ last.challenge =
             generate_code_challenge(code_verifier_store[last.login_state])
       /\ last.url_state = last.login_state

\* C17 witness: the second /login of a run has answered; its URL carries the
\* challenge of the second verifier, stored under the second state.
C17_Witness ==
    /\ last.op = "login"
    /\ last.status = 200
    /\ last.login_state = 2
    /\ code_verifier_store[2] = 2
    /\ last.challenge = generate_code_challenge(2)
    /\ last.url_state = 2

\* Every value an access token can have.
TokenValues == StrTokens \cup {NonStrToken}

\* The latest step answered a /login, /callback or /health request.
AnsweredNow ==
    /\ last.op \in {"login", "callback", "callback_resume", "health"}
    /\ last.status # 0

\* The pairs of a body whose value comes from the token response.
FromTokenResponse(body) ==
    {p \in body :
        \/ p[2] \in TokenValues
        \/ p[2] \in {"token_data.access_token", "token_data.token_type",
                     "token_data.expires_in", "token_data.scope",
                     "token_data.patient"}}

\* C18: no body that /callback (200, 400 or 500), /login or /health answers
\* with holds an access token value, neither in a field nor in the rendered
\* exception; and of the token response the 200 body of /callback holds the
\* fields token_type, expires_in, scope and patient, and no other.
C18_NoTokenInResponseBodies ==
    /\ AnsweredNow
          => /\ last.body # {}
             /\ \A p \in last.body : p[2] \notin TokenValues
             /\ last.message.detail \notin TokenValues
             /\ last.message.text \notin TokenValues
    /\ (AnsweredNow /\ last.status # 200)
          => FromTokenResponse(last.body) = {}
    /\ (last.op = "callback_resume" /\ last.status = 200)
          => FromTokenResponse(last.body) =
                {<<"token_type", "token_data.token_type">>,
                 <<"expires_in", "token_data.expires_in">>,
                 <<"scope", "token_data.scope">>,
                 <<"patient", "token_data.patient">>}
    /\ (last.op \in {"login", "health"} /\ last.status = 200)
          => FromTokenResponse(last.body) = {}

\* C18 witness: a /callback has answered 200 for an exchange that returned
\* token-a, which is now cached; its body names the token type.
C18_Witness ==
    /\ last.op = "callback_resume"
    /\ last.status = 200
    /\ last.token = "token-a"
    /\ access_token_cache = "token-a"
    /\ <<"token_type", "token_data.token_type">> \in last.body

\* The latest step resumed a /callback whose token POST was answered with a
\* non-2xx status.
UpstreamRejectedNow ==
    /\ last.op = "callback_resume"
    /\ last.upstream = "status"

\* C19: when the token endpoint answers the exchange with a non-2xx status s
\* and text b, exchange_code_for_token raises an HTTPException whose
\* status_code is s and whose detail quotes b, and the failure response of
\* /callback shows both s and b in its message.
C19_UpstreamRejectionReachesCaller ==
    UpstreamRejectedNow
    => /\ last.upstream_status \in TokenStatuses
       /\ last.upstream_text \in ErrorTexts
       /\ last.exc.type = "HTTPException"
       /\ last.exc.status_code = last.upstream_status
       /\ last.exc.text = last.upstream_text
       /\ last.status \notin {0, 200}
       /\ <<"message", "str(e)">> \in last.body
       /\ last.message.status = last.upstream_status
       /\ last.message.text = last.upstream_text

\* C19 witness: the token endpoint answered 401 "invalid_client"; the
\* /callback response is a failure whose message shows 401 and that text.
C19_Witness ==
    /\ UpstreamRejectedNow
    /\ last.upstream_status = 401
    /\ last.upstream_text = "invalid_client"
    /\ last.status = 500
    /\ last.message.status = 401
    /\ last.message.text = "invalid_client"

\* The latest step ended a /callback request with a response.
CallbackEndedNow ==
    /\ last.op \in {"callback", "callback_resume"}
    /\ last.status # 0

\* The request carried an OAuth error, no code, or a state that was missing
\* or not in the store.
BadCallbackRequest ==
    /\ last.op = "callback"
    /\ \/ last.q.error # NoParam
       \/ last.q.code = NoCode
       \/ last.q.state = NoState
       \/ last.store_before[last.q.state] = NoEntry

\* The exchange of the request was attempted and exchange_code_for_token
\* raised.
ExchangeRaisedNow ==
    \/ last.op = "callback" /\ ~BadCallbackRequest /\ ~ClientConfigured(ORACLE_CLIENT_ID)
    \/ last.op = "callback_resume" /\ ~ExchangeReturnedNow

\* C20: a /callback request ends with one of the statuses 200, 400, 500:
\* 400 exactly when it carried an OAuth error, no code or a missing or
\* unknown state; 500 exactly when its token exchange failed; 200 exactly
\* when its token exchange succeeded.
C20_CallbackStatusByOutcome ==
    CallbackEndedNow
    => /\ last.status \in {200, 400, 500}
       /\ last.status = 400 <=> BadCallbackRequest
       /\ last.status = 500 <=> ExchangeRaisedNow
       /\ last.status = 200 <=> ExchangeReturnedNow

\* The latest step resumed a /callback whose token POST was answered 2xx
\* with a JSON object that has no (or an empty) access_token.
NoTokenInAnswerNow ==
    /\ last.op = "callback_resume"
    /\ last.upstream = "json"
    /\ last.token = NoToken

\* C21: when the token endpoint answers 2xx without an access_token, the
\* exchange raises, /callback answers 500 "Token exchange failed", the flow
\* is recorded as failed, and the cache is what it was: empty if it was
\* empty, the same token if one was cached.
C21_NoTokenInAnswerFails ==
    NoTokenInAnswerNow
    => /\ last.exc.type = "HTTPException"
       /\ last.exc.status_code = 500
       /\ last.status = 500
       /\ last.error = "Token exchange failed"
       /\ outcome[last.q.state] = "failed"
       /\ access_token_cache = last.cache_before
       /\ last.cache_before = NoToken => granted = NoToken

\* C21 witness: with an empty cache, a 2xx answer without access_token has
\* ended the exchange in 500 and the cache is still empty.
C21_Witness ==
    /\ NoTokenInAnswerNow
    /\ last.status = 500
    /\ last.cache_before = NoToken
    /\ access_token_cache = NoToken
    /\ ~cleared

\* C22: with the client id not configured, /login answers 500 and stores
\* nothing, so the store stays empty; and exchange_code_for_token raises an
\* HTTPException with status 500 without sending a POST, so no request is
\* ever awaiting the token endpoint.
C22_UnconfiguredClientFailsEarly ==
    ORACLE_CLIENT_ID = ""
    => /\ \A s \in States : code_verifier_store[s] = NoEntry
       /\ tasks = EmptyBag
       /\ last.op = "login"
             => /\ last.status = 500
                /\ last.error = "Oracle client ID not configured"
                /\ last.login_state = NoState
       /\ last.op = "exchange"
             => /\ last.exc.type = "HTTPException"
                /\ last.exc.status_code = 500
                /\ last.status = 500
                /\ last.post_code = NoCode
                /\ last.post_verifier = NoEntry
       /\ last.op # "exchange_resume"

\* C22 witness: with the client id empty, a call of exchange_code_for_token
\* has raised its 500; nothing was sent and the store is empty.
C22_Witness ==
    /\ ORACLE_CLIENT_ID = ""
    /\ last.op = "exchange"
    /\ last.exc = ClientIdError
    /\ tasks = EmptyBag
    /\ \A s \in States : code_verifier_store[s] = NoEntry

\* Number of requests awaiting the token endpoint or the resource server.
InFlight == BagCardinality(tasks)

\* C23: a /callback step sends at most one POST and a /patients step at
\* most one GET; the step that receives the answer, whatever the answer,
\* sends nothing, so the request is gone from the network afterwards; and
\* no state has more than one POST sent for it.
C23_NoRetry ==
    /\ last.op \in {"callback", "patients"}
          => /\ last.sent \in {0, 1}
             /\ last.sent = 1 <=> last.status = 0
             /\ InFlight = last.inflight_before + last.sent
    /\ last.op \in {"callback_resume", "patients_resume"}
          => /\ last.sent = 0
             /\ last.status # 0
             /\ InFlight = last.inflight_before - 1
    /\ \A s \in States : posted[s] <= 1 /\ SuspendedCallbacks(s) <= posted[s]

\* C23 witness: the one /patients request in flight got 401; it has been
\* answered 401 and nothing is awaiting the network.
C23_Witness ==
    /\ Got401
    /\ last.inflight_before = 1
    /\ last.status = 401
    /\ InFlight = 0

\* The latest step is a /callback with no error parameter and no code.
CallbackWithoutCode ==
    /\ last.op = "callback"
    /\ last.q.error = NoParam
    /\ last.q.code = NoCode

\* C24: a /callback with no error and no code is answered 400 "Missing
\* authorization code", whatever its state parameter: nothing is sent to the
\* token endpoint, no entry leaves the store (that of a valid state
\* included) and the cache is what it was.
C24_MissingCodeBeforeStateCheck ==
    CallbackWithoutCode
    => /\ last.status = 400
       /\ last.error = "Missing authorization code"
       /\ last.body = MissingCodeBody
       /\ last.sent = 0
       /\ last.post_verifier = NoEntry
       /\ InFlight = last.inflight_before
       /\ code_verifier_store = last.store_before
       /\ access_token_cache = last.cache_before
       /\ \A s \in States : resolved[s] = 0 => outcome[s] = "none"

\* C24 witness: a /callback without code named a pending state while a
\* token was cached; the entry is still in the store and the token cached.
C24_Witness ==
    /\ CallbackWithoutCode
    /\ last.q.state \in States
    /\ last.store_before[last.q.state] # NoEntry
    /\ code_verifier_store[last.q.state] = issued[last.q.state]
    /\ last.status = 400
    /\ access_token_cache \in StrTokens

\* The entries of a store.
EntriesOf(store) == {s \in States : store[s] # NoEntry}

\* C25: with the client id configured, a /login answers 200 in whatever
\* state it finds the process; the store gains one entry, under the state it
\* returns, and keeps every entry it had; the cache and the requests in
\* flight are what they were.
C25_LoginStartsFreshFlow ==
    (last.op = "login" /\ ORACLE_CLIENT_ID # "")
    => /\ last.status = 200
       /\ last.login_state \in States
       /\ EntriesOf(code_verifier_store)
             = EntriesOf(last.store_before) \cup {last.login_state}
       /\ Cardinality(EntriesOf(code_verifier_store))
             = Cardinality(EntriesOf(last.store_before)) + 1
       /\ \A t \in EntriesOf(last.store_before) :
             code_verifier_store[t] = last.store_before[t]
       /\ access_token_cache = last.cache_before
       /\ InFlight = last.inflight_before

\* C25 witness: a /login has answered 200 after an earlier flow ended with
\* a token, which is still cached, and while a /patients request was in
\* flight.
C25_Witness ==
    /\ last.op = "login"
    /\ last.status = 200
    /\ \E s \in States \ {last.login_state} : outcome[s] = "ok"
    /\ code_verifier_store[last.login_state] = issued[last.login_state]
    /\ access_token_cache \in StrTokens
    /\ \E r \in BagToSet(tasks) : r.pc = "await_get"

\* Flow phases of a state value s.
\*   IDLE       /login has not issued s
\*   PENDING    the entry of s is in the store
\*   the callback that consumed the entry is awaiting the token endpoint
\*   terminal   that callback has been answered
FlowIdle(s) == issued[s] = NoEntry
FlowPending(s) == code_verifier_store[s] # NoEntry
FlowExchanging(s) == resolved[s] >= 1 /\ outcome[s] = "none"
FlowTerminal(s) == outcome[s] # "none"

\* Every state is in one phase, and a terminal state is not pending.
FlowPhases ==
    \A s \in States :
        /\ FlowIdle(s) => ~FlowPending(s) /\ ~FlowExchanging(s) /\ ~FlowTerminal(s)
        /\ FlowPending(s) => ~FlowExchanging(s) /\ ~FlowTerminal(s) /\ resolved[s] = 0
        /\ FlowExchanging(s) => SuspendedCallbacks(s) = 1
        /\ FlowTerminal(s) => resolved[s] = 1 /\ SuspendedCallbacks(s) = 0

\* A callback that had consumed its entry has been answered: AUTHORIZED is
\* 200 with the token of the answer in the cache, FAILED is 500.
FlowEndsOneWay ==
    last.op = "callback_resume"
    => /\ FlowTerminal(last.q.state)
       /\ \/ last.status = 200 /\ last.token # NoToken
                               /\ access_token_cache = last.token
          \/ last.status = 500 /\ last.error = "Token exchange failed"

\* C26: every state goes IDLE -> PENDING -> terminal; the callback that has
\* consumed the entry of s is answered in the end, with 200 and the cache
\* populated or with 500; and a state that is terminal is never pending
\* again.
C26_FlowReachesOneTerminalOutcome ==
    /\ [](FlowPhases /\ FlowEndsOneWay)
    /\ [][\A s \in States : FlowTerminal(s) => FlowTerminal(s)' /\ ~FlowPending(s)']_vars
    /\ \A s \in States : FlowExchanging(s) ~> FlowTerminal(s)

\* C26 witness: one flow has ended AUTHORIZED and the other FAILED; neither
\* state is pending.
C26_Witness ==
    /\ \E s, t \in States : outcome[s] = "ok" /\ outcome[t] = "failed"
    /\ \A s \in States : FlowTerminal(s) /\ ~FlowPending(s)
    /\ last.op = "callback_resume"
    /\ last.status = 500
    /\ access_token_cache \in StrTokens

\* The latest step read the cached token: a /patients request was sent or
\* was answered 2xx by the resource server, or /health answered.
ReadTokenNow ==
    \/ last.op = "patients" /\ last.status = 0
    \/ last.op = "patients_resume" /\ last.upstream = "json"
    \/ last.op = "health"

\* C27: a step that reads the cached token leaves the cache and the store
\* as it found them; a /patients request answered 2xx by the resource server
\* answers 200 and /health reports whether a token is cached; and a
\* /patients that finds a string token cached sends that very token.
C27_ReadsDoNotConsume ==
    /\ ReadTokenNow
          => /\ access_token_cache = last.cache_before
             /\ code_verifier_store = last.store_before
    /\ (last.op = "patients_resume" /\ last.upstream = "json")
          => last.status = 200
    /\ last.op = "health"
          => /\ last.status = 200
             /\ last.has_active_token <=> last.cache_before # NoToken
    /\ (last.op = "patients" /\ last.cache_before \in StrTokens)
          => /\ last.status = 0
             /\ last.get_bearer = last.cache_before

\* C27 witness: a /patients request that sent token-a has been answered 200
\* while a second /patients request sent with the same token is in flight,
\* and token-a is still cached.
C27_Witness ==
    /\ last.op = "patients_resume"
    /\ last.status = 200
    /\ last.token = "token-a"
    /\ access_token_cache = "token-a"
    /\ BagIn(AwaitGet("token-a"), tasks)

\* generate_code_verifier has returned.
VerifierReturned == pkce.length # 0

\* C28: a verifier returned by generate_code_verifier encodes 40 bytes; it
\* has 54 characters, all of them base64 characters and none a pad, and 54
\* is not below the PKCE minimum of 43.
C28_VerifierLength ==
    /\ pkce.n <= VerifierBytes
    /\ pkce.out_len = 4 * ((pkce.n - Len(pkce.buf)) \div 3)
          + (IF VerifierReturned THEN Len(pkce.group) ELSE 0)
    /\ \A i \in 1..Len(pkce.group) : pkce.group[i] \in 0..63
    /\ VerifierReturned
          => /\ pkce.n = 40
             /\ pkce.length = 54
             /\ pkce.length = pkce.out_len
             /\ pkce.length >= 43

\* C28 witness: generate_code_verifier has returned after 40 bytes, the last
\* of which was encoded in two characters.
C28_Witness ==
    /\ VerifierReturned
    /\ pkce.n = 40
    /\ Len(pkce.group) = 2
    /\ pkce.length = 54

\* C30: an entry leaves the store only in a /callback step that carries the
\* entry's state, a code and no error parameter; no step of /login,
\* /patients or /health and no /callback with an error or without a code
\* removes one; an entry whose state no such callback has presented is in
\* the store, with its verifier, in every later state.
C30_EntriesLeaveOnlyByCallback ==
    /\ \A s \in States :
          (last.store_before[s] # NoEntry /\ code_verifier_store[s] = NoEntry)
             => /\ last.op = "callback"
                /\ last.q.state = s
                /\ last.q.code # NoCode
                /\ last.q.error = NoParam
    /\ last.op \in {"login", "patients", "patients_resume", "health",
                    "callback_resume"}
          => EntriesOf(last.store_before) \subseteq EntriesOf(code_verifier_store)
    /\ (last.op = "callback" /\ (last.q.error # NoParam \/ last.q.code = NoCode))
          => code_verifier_store = last.store_before
    /\ \A s \in States :
          (issued[s] # NoEntry /\ resolved[s] = 0)
             => /\ FlowPending(s)
                /\ code_verifier_store[s] = issued[s]

\* C30 witness: the entry of an abandoned flow is still in the store after
\* another flow has run to its token, a 401 has emptied the cache, and a
\* callback with an error has named the abandoned state.
C30_Witness ==
    /\ last.op = "callback"
    /\ last.q.error # NoParam
    /\ last.q.state \in States
    /\ code_verifier_store[last.q.state] = issued[last.q.state]
    /\ issued[last.q.state] # NoEntry
    /\ \E t \in States : outcome[t] = "ok"
    /\ cleared

\* ------------------------------------------------------------------- C31
\* The resource server has just answered a /patients request with an error
\* status other than 401.
UpstreamErrorPassedNow ==
    /\ last.op = "patients_resume"
    /\ last.upstream = "status"
    /\ last.upstream_status # 401

\* C31: when the resource server answers /patients with a non-2xx status s
\* other than 401, /patients responds with that same status s, its detail
\* quotes the body the resource server sent, and the access token cache holds
\* what it held before.
C31_UpstreamStatusPassedThrough ==
    UpstreamErrorPassedNow =>
       /\ last.upstream_status \in ResourceStatuses \ {401}
       /\ last.status = last.upstream_status
       /\ last.exc.type = "HTTPException"
       /\ last.exc.status_code = last.upstream_status
       /\ last.upstream_text \in ResourceTexts
       /\ last.exc.text = last.upstream_text
       /\ <<"detail: quoted text", last.upstream_text>> \in last.body
       /\ access_token_cache = last.cache_before

\* A 503 with a timeout text arrives while a token is cached: the caller gets
\* the 503 and the text, the token stays.
C31_Witness ==
    /\ UpstreamErrorPassedNow
    /\ last.upstream_status = 503
    /\ last.status = 503
    /\ last.upstream_text = "OperationOutcome: timeout"
    /\ last.cache_before \in StrTokens
    /\ access_token_cache = last.cache_before

\* ------------------------------------------------------------------- C32
\* A /patients request has just started with an empty cache.
PatientsStartedEmpty ==
    /\ last.op = "patients"
    /\ last.cache_before = NoToken

\* C32: whenever the access token cache is empty at the start of a /patients
\* request, the request ends at once with 401 "No access token available",
\* nothing is sent to the resource server, and neither the cache nor the state
\* store changes.
C32_EmptyCacheIs401 ==
    PatientsStartedEmpty =>
       /\ last.status = 401
       /\ last.error = "No access token available"
       /\ last.sent = 0
       /\ last.get_bearer = NoToken
       /\ BagCardinality(tasks) = last.inflight_before
       /\ access_token_cache = last.cache_before
       /\ code_verifier_store = last.store_before

\* The cache is empty because a 401 cleared it, a login is pending and an
\* earlier GET is still in flight: /patients answers 401 and all of that stays.
C32_Witness ==
    /\ PatientsStartedEmpty
    /\ last.status = 401
    /\ cleared
    /\ \E s \in States : code_verifier_store[s] # NoEntry
    /\ \E r \in BagToSet(tasks) : r.pc = "await_get"
    /\ last.inflight_before = BagCardinality(tasks)

\* ------------------------------------------------------------------- C33
\* A /callback request that carried an `error' parameter has just been
\* answered.
OAuthErrorAnsweredNow ==
    /\ last.op = "callback"
    /\ last.q.error # NoParam

\* The generic answer of the error branch: "Authorization Failed" with the
\* error code, description and uri of the request.
GenericOAuthErrorAnswer ==
    /\ last.error = "Authorization Failed"
    /\ last.body = OAuthErrorBody(last.q, FALSE)
    /\ <<"error", "Authorization Failed">> \in last.body
    /\ <<"error_code", last.q.error>> \in last.body
    /\ <<"error_uri", last.q.error_uri>> \in last.body
    /\ \E d \in last.body : d[1] = "error_description"

\* C33: in the error branch of /callback the answer is 400; it is the
\* "Launch Context Required" diagnostic exactly when error_uri names
\* launch:code-required, and every other error (access_denied, a plain
\* invalid_request) gets the generic "Authorization Failed" answer carrying
\* the error code, description and uri.
C33_LaunchDiagnosticOnlyForLaunchUri ==
    OAuthErrorAnsweredNow =>
       /\ last.status = 400
       /\ last.error = "Launch Context Required" <=> last.q.error_uri = LaunchUri
       /\ last.q.error_uri # LaunchUri => GenericOAuthErrorAnswer

\* ------------------------------------------------------------------- C34
\* A /health request has just been answered.
HealthAnsweredNow == last.op = "health"

\* C34: the has_active_token field of /health is true exactly when the access
\* token cache is non-empty at the time of the request: false while no
\* exchange has returned, true while the token of the latest exchange is
\* installed, false again once a 401 of the resource server has cleared it.
C34_HealthReportsCache ==
    HealthAnsweredNow =>
       /\ last.status = 200
       /\ last.has_active_token <=> last.cache_before # NoToken
       /\ <<"has_active_token", "true">> \in last.body <=> last.cache_before # NoToken
       /\ <<"has_active_token", "false">> \in last.body <=> last.cache_before = NoToken
       /\ access_token_cache = last.cache_before
       /\ (\A s \in States : outcome[s] # "ok") => ~last.has_active_token
       /\ granted # NoToken => last.has_active_token
       /\ cleared => ~last.has_active_token

\* An exchange returned a token and a 401 cleared it since: /health says false.
C34_Witness ==
    /\ HealthAnsweredNow
    /\ \E s \in States : outcome[s] = "ok"
    /\ cleared
    /\ ~last.has_active_token
    /\ <<"has_active_token", "false">> \in last.body

\* ------------------------------------------- sandbox passthrough endpoints
\* /test-fhir-metadata (lines 342-381), /oracle-sandbox/patients (lines
\* 386-570) and /oracle-sandbox/patient-complete/{id} (lines 1084-1213) stand
\* for the passthrough routes of lines 342-1213: each builds its headers from
\* literals, awaits one GET (patient-complete a second one for the coverage)
\* and reshapes the answer.
SandboxStatuses == {400, 404}
SandboxTexts == {"OperationOutcome: not-found", "must provide at least one of"}
SandboxResponses ==
    [kind : {"json"}, status : {200}, text : {""}]
    \cup [kind : {"status"}, status : SandboxStatuses, text : SandboxTexts]
    \cup [kind : {"transport"}, status : {0}, text : {""}]

\* Faulty variant of SandboxBearer: the cached token is attached to the
\* sandbox request.
SandboxBearerCached(cache) == cache

\* The token in the Authorization header of a sandbox request: the headers
\* are {"Accept": ..., "User-Agent": ...} (lines 349-351, 435-438,
\* 1097-1100), there is no Authorization header.
SandboxBearer(cache) == NoToken

\* A passthrough request suspended on a GET (pc names the await).
AwaitSandbox(pc, bearer) == [AwaitGet(bearer) EXCEPT !.pc = pc]
SandboxPcs ==
    {"await_metadata", "await_sandbox_patients", "await_profile_patient",
     "await_profile_coverage"}
SandboxOps ==
    {"metadata", "metadata_resume", "sandbox_patients", "sandbox_patients_resume",
     "profile", "profile_resume", "profile_coverage"}

\* The frame of every passthrough step.
SandboxFrame ==
    UNCHANGED <<pkce, ORACLE_CLIENT_ID, code_verifier_store, access_token_cache,
                used, generated, issued, resolved, posted, outcome, granted,
                cleared>>

\* A passthrough handler up to its first GET.
SandboxSend(op, pc) ==
    /\ CanSuspend
    /\ tasks' = tasks (+) SetToBag({AwaitSandbox(pc, SandboxBearer(access_token_cache))})
    /\ last' = [Event(op) EXCEPT !.get_bearer = SandboxBearer(access_token_cache),
                                 !.sent = 1]
    /\ SandboxFrame

\* The event of a passthrough handler that has an answer.
SandboxAnswer(op, r, resp) ==
    [Event(op) EXCEPT !.upstream = resp.kind, !.upstream_status = resp.status,
                      !.upstream_text = resp.text, !.token = r.bearer]

\* /test-fhir-metadata, lines 347-354
test_fhir_metadata == SandboxSend("metadata", "await_metadata")

\* lines 356-381: every answer, and every exception, is reported in a 200.
test_fhir_metadata_resume(r, resp) ==
    /\ r.pc = "await_metadata"
    /\ BagIn(r, tasks)
    /\ tasks' = AfterAnswer(tasks, r, resp)
    /\ last' = [SandboxAnswer("metadata_resume", r, resp) EXCEPT !.status = 200]
    /\ SandboxFrame

\* /oracle-sandbox/patients, lines 408-446
get_sandbox_patients == SandboxSend("sandbox_patients", "await_sandbox_patients")

\* lines 448-570: 200 with the summaries; for an error status 400 when the
\* text asks for a search parameter, else the status itself; 500 otherwise.
get_sandbox_patients_resume(r, resp) ==
    /\ r.pc = "await_sandbox_patients"
    /\ BagIn(r, tasks)
    /\ tasks' = AfterAnswer(tasks, r, resp)
    /\ last' = [SandboxAnswer("sandbox_patients_resume", r, resp) EXCEPT
                  !.status = CASE resp.kind = "json" -> 200
                               [] resp.kind = "status" ->
                                    IF resp.text = "must provide at least one of"
                                    THEN 400 ELSE resp.status
                               [] resp.kind = "transport" -> 500]
    /\ SandboxFrame

\* /oracle-sandbox/patient-complete/{patient_id}, lines 1090-1104
get_complete_patient_profile == SandboxSend("profile", "await_profile_patient")

\* lines 1105-1178 and 1208-1213: a 2xx patient answer is followed by the
\* GET of the coverage with the same headers; an error status is passed on,
\* anything else is a 500.
get_complete_patient_profile_resume(r, resp) ==
    /\ r.pc = "await_profile_patient"
    /\ BagIn(r, tasks)
    /\ IF resp.kind = "json"
       THEN /\ tasks' = AfterAnswer(tasks, r, resp)
                        (+) SetToBag({AwaitSandbox("await_profile_coverage", r.bearer)})
            /\ last' = [SandboxAnswer("profile_resume", r, resp) EXCEPT
                          !.get_bearer = r.bearer, !.sent = 1]
       ELSE /\ tasks' = AfterAnswer(tasks, r, resp)
            /\ last' = [SandboxAnswer("profile_resume", r, resp) EXCEPT
                          !.status = IF resp.kind = "status" THEN resp.status ELSE 500]
    /\ SandboxFrame

\* lines 1179-1206: whatever the coverage GET gives (the bare except of line
\* 1193 included), the profile is returned.
get_complete_patient_profile_coverage(r, resp) ==
    /\ r.pc = "await_profile_coverage"
    /\ BagIn(r, tasks)
    /\ tasks' = AfterAnswer(tasks, r, resp)
    /\ last' = [SandboxAnswer("profile_coverage", r, resp) EXCEPT !.status = 200]
    /\ SandboxFrame

\* The authorization flow with passthrough requests in between (the
\* callbacks are those of an authorization server that reports no error: the
\* error branch changes nothing and is covered by Next).
NextSandbox ==
    \/ \E s \in FreshStates, v \in FreshVerifiers : login(s, v)
    \/ \E q \in {x \in CallbackQueries : x.error = NoParam} : callback(q)
    \/ \E r \in BagToSet(tasks), resp \in TokenResponses : callback_resume(r, resp)
    \/ get_patients
    \/ \E r \in BagToSet(tasks), resp \in ResourceResponses :
          get_patients_resume(r, resp)
    \/ test_fhir_metadata
    \/ \E r \in BagToSet(tasks), resp \in SandboxResponses :
          test_fhir_metadata_resume(r, resp)
    \/ get_sandbox_patients
    \/ \E r \in BagToSet(tasks), resp \in SandboxResponses :
          get_sandbox_patients_resume(r, resp)
    \/ get_complete_patient_profile
    \/ \E r \in BagToSet(tasks), resp \in SandboxResponses :
          get_complete_patient_profile_resume(r, resp)
    \/ \E r \in BagToSet(tasks), resp \in SandboxResponses :
          get_complete_patient_profile_coverage(r, resp)

SpecSandbox == Init /\ [][NextSandbox]_vars

\* ------------------------------------------------------------------- C35
\* The suspended requests of the authorization flow and of /patients.
FlowTasks(waiting) ==
    [r \in {x \in BagToSet(waiting) : x.pc \notin SandboxPcs} |-> waiting[r]]

\* C35: no step of a sandbox passthrough endpoint changes the state store,
\* the access token cache or anything else the authorization flow keeps or
\* has in flight, and none attaches the cached bearer token to its upstream
\* request; so the flow goes on after such a step as it would have without
\* it.
C35_SandboxLeavesFlowAlone ==
    [][last'.op \in SandboxOps =>
          /\ code_verifier_store' = code_verifier_store
          /\ access_token_cache' = access_token_cache
          /\ UNCHANGED <<ORACLE_CLIENT_ID, used, generated, issued, resolved,
                         posted, outcome, granted, cleared>>
          /\ FlowTasks(tasks') = FlowTasks(tasks)
          /\ last'.get_bearer = NoToken
          /\ last'.token = NoToken
          /\ \A r \in BagToSet(tasks') : r.pc \in SandboxPcs => r.bearer = NoToken
    ]_vars

\* A passthrough request is answered while a token is cached and the token
\* POST of another flow is in flight.
C35_Witness ==
    /\ last.op \in {"metadata_resume", "sandbox_patients_resume", "profile_coverage"}
    /\ last.status # 0
    /\ access_token_cache \in StrTokens
    /\ last.cache_before = access_token_cache
    /\ \E r \in BagToSet(tasks) : r.pc = "await_post"

====
